---- MODULE Spec2Model ----
(***************************************************************************)
(* Model of src/rust/dicom.rs: the DICOM gate (is_dicom_file), the         *)
(* per-file anonymization (anonymize_file), the batch walk (anonymize_dir) *)
(* and the tag projection (extract_dicom_tags).                            *)
(*                                                                         *)
(* Strings are sequences of one-character strings, so that slicing,        *)
(* splitting, parsing and formatting are computed as the code computes     *)
(* them.  Integers that do not fit TLC's machine integers (i64, u32, f64   *)
(* holding an integer) are sequences of decimal digits 0..9, most          *)
(* significant first, without leading zeros; <<>> is zero.                 *)
(***************************************************************************)
EXTENDS Integers, Sequences, FiniteSets, TLC

----------------------------------------------------------------------------
(* Bounds of the model *)

\* longest directory listing WalkDir hands to anonymize_dir
MaxEntries == 2
\* longest path list handed to extract_dicom_tags
MaxPaths == 2

----------------------------------------------------------------------------
(* Characters and strings *)

ASCIIDigits == {"0", "1", "2", "3", "4", "5", "6", "7", "8", "9"}

\* U+00BE VULGAR FRACTION THREE QUARTERS: general category No, not a digit
ThreeQuarters == "U+00BE"

\* char::is_numeric: general categories Nd, Nl, No
IsNumeric(c) == c \in ASCIIDigits \cup {ThreeQuarters}

\* char::to_digit(10)
DigitValue(c) ==
    CASE c = "0" -> 0 [] c = "1" -> 1 [] c = "2" -> 2 [] c = "3" -> 3
      [] c = "4" -> 4 [] c = "5" -> 5 [] c = "6" -> 6 [] c = "7" -> 7
      [] c = "8" -> 8 [] c = "9" -> 9

DigitChar(d) == <<"0", "1", "2", "3", "4", "5", "6", "7", "8", "9">>[d + 1]

\* a "{:x}" in place of "{:X}"
LowerHexChar(d) ==
    <<"0", "1", "2", "3", "4", "5", "6", "7",
      "8", "9", "a", "b", "c", "d", "e", "f">>[d + 1]

HexChar(d) ==
    <<"0", "1", "2", "3", "4", "5", "6", "7",
      "8", "9", "A", "B", "C", "D", "E", "F">>[d + 1]

IsASCIIDigit(c) == c \in ASCIIDigits

\* s.chars().all(char::is_numeric)
AllNumeric(s) == \A i \in 1..Len(s) : IsNumeric(s[i])

\* every character is one of 0..9
AllDigits(s) == \A i \in 1..Len(s) : IsASCIIDigit(s[i])

\* str[a..b] with byte offsets: Ok with the slice, or a panic when b > len
Slice(s, a, b) ==
    IF b <= Len(s) /\ a <= b
    THEN [ok |-> TRUE, val |-> SubSeq(s, a + 1, b)]
    ELSE [ok |-> FALSE, val |-> <<>>]

\* str::replace(from, to) for one-character patterns
Replace(s, from, to) == [i \in 1..Len(s) |-> IF s[i] = from THEN to ELSE s[i]]

\* str::split(sep).collect(): the parts between the separators, empty parts kept
RECURSIVE SplitFrom(_, _, _, _)
SplitFrom(s, sep, part, acc) ==
    IF s = <<>> THEN Append(acc, part)
    ELSE IF Head(s) = sep THEN SplitFrom(Tail(s), sep, <<>>, Append(acc, part))
    ELSE SplitFrom(Tail(s), sep, Append(part, Head(s)), acc)

Split(s, sep) == SplitFrom(s, sep, <<>>, <<>>)

----------------------------------------------------------------------------
(* Decimal numbers wider than a machine integer *)

RECURSIVE StripZeros(_)
StripZeros(ds) ==
    IF ds # <<>> /\ Head(ds) = 0 THEN StripZeros(Tail(ds)) ELSE ds

\* the digits of a string of ASCII digits
ToDec(s) == StripZeros([i \in 1..Len(s) |-> DigitValue(s[i])])

RECURSIVE IntToDec(_)
IntToDec(n) == IF n = 0 THEN <<>> ELSE Append(IntToDec(n \div 10), n % 10)

RECURSIVE LexLeq(_, _)
LexLeq(a, b) ==
    IF a = <<>> THEN TRUE
    ELSE IF Head(a) # Head(b) THEN Head(a) < Head(b)
    ELSE LexLeq(Tail(a), Tail(b))

DecLeq(a, b) == Len(a) < Len(b) \/ (Len(a) = Len(b) /\ LexLeq(a, b))

\* i64::MAX = 9223372036854775807
I64Max == <<9, 2, 2, 3, 3, 7, 2, 0, 3, 6, 8, 5, 4, 7, 7, 5, 8, 0, 7>>
\* u32::MAX = 4294967295
U32Max == <<4, 2, 9, 4, 9, 6, 7, 2, 9, 5>>

\* long division of a decimal number by 16: quotient digits and remainder
RECURSIVE DivBy16(_, _, _)
DivBy16(ds, rem, q) ==
    IF ds = <<>> THEN [q |-> StripZeros(q), r |-> rem]
    ELSE LET cur == rem * 10 + Head(ds)
         IN  DivBy16(Tail(ds), cur % 16, Append(q, cur \div 16))

RECURSIVE UpperHexDigits(_)
UpperHexDigits(ds) ==
    IF ds = <<>> THEN <<>>
    ELSE LET d == DivBy16(ds, 0, <<>>)
         IN  Append(UpperHexDigits(d.q), HexChar(d.r))

\* format!("{:X}", n) for n >= 0
FormatUpperHex(ds) == IF ds = <<>> THEN <<"0">> ELSE UpperHexDigits(ds)

\* format!("{:05}", n)
RECURSIVE PadZeros(_, _)
PadZeros(s, width) == IF Len(s) >= width THEN s ELSE PadZeros(<<"0">> \o s, width)

FormatDec(ds) == IF ds = <<>> THEN <<"0">> ELSE [i \in 1..Len(ds) |-> DigitChar(ds[i])]

FormatPad5(ds) == PadZeros(FormatDec(ds), 5)

\* i64::from_str_radix(s, 10) on a string without sign
ParseI64(s) ==
    IF s # <<>> /\ AllDigits(s) /\ DecLeq(ToDec(s), I64Max)
    THEN [ok |-> TRUE, val |-> ToDec(s)]
    ELSE [ok |-> FALSE, val |-> <<>>]

\* str::parse::<u32>() on a string without sign
ParseU32(s) ==
    IF s # <<>> /\ AllDigits(s) /\ DecLeq(ToDec(s), U32Max)
    THEN [ok |-> TRUE, val |-> ToDec(s)]
    ELSE [ok |-> FALSE, val |-> <<>>]

\* the value of a string of ASCII digits that fits a machine integer
RECURSIVE SmallInt(_, _)
SmallInt(s, acc) ==
    IF s = <<>> THEN acc ELSE SmallInt(Tail(s), acc * 10 + DigitValue(Head(s)))

RECURSIVE SumOf(_)
SumOf(parts) == IF parts = <<>> THEN 0 ELSE SmallInt(Head(parts), 0) + SumOf(Tail(parts))

\* evalexpr on an expression made of '+' and decimal literals: the sum, or an
\* error for an empty expression, an empty operand or a non-digit token
EvalSum(expr) ==
    LET parts == Split(expr, "+")
    IN  IF \A i \in 1..Len(parts) :
               parts[i] # <<>> /\ AllDigits(parts[i])
        THEN [ok |-> TRUE, val |-> IntToDec(SumOf(parts))]
        ELSE [ok |-> FALSE, val |-> <<>>]

----------------------------------------------------------------------------
(* Paths *)

Max(S) == CHOOSE x \in S : \A y \in S : y <= x

\* PathBuf::join (Unix): an absolute component replaces the path, otherwise
\* the component is appended after a separator
Join(p, c) ==
    IF c # <<>> /\ Head(c) = "/" THEN c
    ELSE IF p = <<>> \/ p[Len(p)] = "/" THEN p \o c
    ELSE p \o <<"/">> \o c

\* Path::parent for a path without trailing or repeated separators:
\* None for the root and the empty path, else the path without its last component
Parent(p) ==
    LET seps == {i \in 1..Len(p) : p[i] = "/"}
    IN  IF p = <<>> \/ p = <<"/">> THEN [some |-> FALSE, val |-> <<>>]
        ELSE IF seps = {} THEN [some |-> TRUE, val |-> <<>>]
        ELSE IF Max(seps) = 1 THEN [some |-> TRUE, val |-> <<"/">>]
        ELSE [some |-> TRUE, val |-> SubSeq(p, 1, Max(seps) - 1)]

----------------------------------------------------------------------------
(* DICOM files: the top-level elements of a file, tag keyword |-> value *)

DEFAULT_IMG_TYPE == <<"U", "N", "K">>

\* gethostname::gethostname() of the machine the batch runs on
HostName == <<"h", "o", "s", "t">>

\* match file.element(tag) { Ok(tag) => tag.to_str(), Err(_) => "" }
Element(f, tag) == IF tag \in DOMAIN f THEN f[tag] ELSE <<>>

\* file.put_element(DataElement::new(tag, vr, value))
PutElement(f, tag, value) ==
    [t \in DOMAIN f \cup {tag} |-> IF t = tag THEN value ELSE f[t]]

\* the removal loop left out
KeepElements(f, tags) == f

\* file.remove_element(tag), for each tag of a list
RemoveElements(f, tags) == [t \in DOMAIN f \ tags |-> f[t]]

\* the tags anonymize_file clears
TagsToRemove ==
    { "InstitutionName", "InstitutionAddress", "ReferringPhysicianName",
      "ReferringPhysicianAddress", "ReferringPhysicianTelephoneNumbers",
      "InstitutionalDepartmentName", "PhysiciansOfRecord",
      "PhysiciansOfRecordIdentificationSequence", "PerformingPhysicianName",
      "NameOfPhysiciansReadingStudy", "OperatorsName",
      "AdmittingDiagnosesDescription", "OtherPatientIDs", "OtherPatientNames",
      "MedicalRecordLocator", "EthnicGroup", "Occupation",
      "AdditionalPatientHistory", "PatientComments", "RequestingPhysician",
      "RequestingService", "RequestedProcedureDescription",
      "ScheduledPerformingPhysicianName", "PerformedStationAETitle",
      "RequestAttributesSequence", "RequestedProcedureID",
      "IssueDateOfImagingServiceRequest", "ContentSequence" }

\* the (tag, value) table anonymize_file overwrites, in the order of the code
ChangedTags(new_station, new_study_date, study_uid, new_pid, new_birth_date) ==
    << <<"StationName", new_station>>,
       <<"InstanceCreationDate", new_study_date>>,
       <<"StudyDate", new_study_date>>,
       <<"SeriesDate", new_study_date>>,
       <<"AcquisitionDate", new_study_date>>,
       <<"ContentDate", new_study_date>>,
       <<"AccessionNumber", study_uid>>,
       <<"PatientName", new_pid>>,
       <<"PatientID", new_pid>>,
       <<"PatientBirthDate", new_birth_date>>,
       <<"StudyID", study_uid>> >>

RECURSIVE PutAll(_, _)
PutAll(f, table) ==
    IF table = <<>> THEN f
    ELSE PutAll(PutElement(f, Head(table)[1], Head(table)[2]), Tail(table))

\* the 15 tags extract_dicom_tags projects, in the order of the code
TagsToExtract ==
    << "ImageType", "InstanceCreationDate", "StudyDate", "SeriesDate",
       "AcquisitionDate", "ContentDate", "AccessionNumber", "Modality",
       "StationName", "PatientName", "PatientID", "PatientBirthDate",
       "SeriesInstanceUID", "StudyID", "InstanceNumber" >>

\* Tag::to_string(): "(gggg,eeee)"
TagString(tag) ==
    CASE tag = "ImageType" -> "(0008,0008)"
      [] tag = "InstanceCreationDate" -> "(0008,0012)"
      [] tag = "StudyDate" -> "(0008,0020)"
      [] tag = "SeriesDate" -> "(0008,0021)"
      [] tag = "AcquisitionDate" -> "(0008,0022)"
      [] tag = "ContentDate" -> "(0008,0023)"
      [] tag = "AccessionNumber" -> "(0008,0050)"
      [] tag = "Modality" -> "(0008,0060)"
      [] tag = "StationName" -> "(0008,1010)"
      [] tag = "PatientName" -> "(0010,0010)"
      [] tag = "PatientID" -> "(0010,0020)"
      [] tag = "PatientBirthDate" -> "(0010,0030)"
      [] tag = "SeriesInstanceUID" -> "(0020,000E)"
      [] tag = "StudyID" -> "(0020,0010)"
      [] tag = "InstanceNumber" -> "(0020,0013)"

----------------------------------------------------------------------------
(* The source tree: what lies at each source path *)

GoodElems ==
    [ ImageType |-> <<"O", "R", "I", "G", "I", "N", "A", "L", "/", "P", "R", "I", "M", "A", "R", "Y", "/", "M", "R">>,
      DeviceSerialNumber |-> <<"1", "2", "3", "4", "5">>,
      StudyDate |-> <<"2", "0", "2", "3", "0", "6", "1", "5">>,
      StudyTime |-> <<"1", "0", "1", "5", "3", "0">>,
      StudyInstanceUID |-> <<"1", ".", "2", ".", "8", "4", "0", ".", "1", "0", "0", "0", "8">>,
      PatientBirthDate |-> <<"1", "9", "8", "0", "0", "1", "0", "1">>,
      SeriesInstanceUID |-> <<"1", ".", "2", ".", "3">>,
      Modality |-> <<"M", "R">>,
      InstanceNumber |-> <<"7">>,
      SOPInstanceUID |-> <<"1", ".", "8">>,
      PatientName |-> <<"D", "O", "E", "^", "J">>,
      PatientID |-> <<"P", "1">>,
      InstitutionName |-> <<"C", "L", "I", "N", "I", "C">>,
      OtherPatientIDs |-> <<"P", "2">>,
      ContentSequence |-> <<"S", "Q">> ]

\* f with the elements of g put over it
With(f, g) == [t \in DOMAIN f \cup DOMAIN g |-> IF t \in DOMAIN g THEN g[t] ELSE f[t]]

Without(f, tags) == [t \in DOMAIN f \ tags |-> f[t]]

RegularFile(elems) == [is_file |-> TRUE, open_ok |-> TRUE, elems |-> elems]

Disk ==
    [ in |-> [is_file |-> FALSE, open_ok |-> FALSE, elems |-> <<>>],
      notes |-> [is_file |-> TRUE, open_ok |-> FALSE, elems |-> <<>>],
      good |-> RegularFile(GoodElems),
      twin |-> RegularFile(With(Without(GoodElems, {"InstitutionName"}),
                                [PatientName |-> <<"R", "O", "E", "^", "K">>, PerformedStationAETitle |-> <<"A", "E">>,
                                 SOPInstanceUID |-> <<"1", ".", "9">>])),
      plain |-> RegularFile(
                  [ ImageType |-> <<"O", "R", "I", "G", "I", "N", "A", "L">>, StudyDate |-> <<"1", "9", "9", "9", "1", "2", "3", "1">>,
                    StudyTime |-> <<"2", "3", "5", "9">>, StudyInstanceUID |-> <<"9">>,
                    PatientBirthDate |-> <<"1", "9", "5", "0">>, InstanceNumber |-> <<"1", "2", "3", "4", "5", "6">>,
                    Occupation |-> <<"X">> ]),
      notype |-> RegularFile(Without(GoodElems, {"ImageType"})),
      emptytype |-> RegularFile(With(GoodElems, [ImageType |-> <<>>])),
      serialx |-> RegularFile(With(GoodElems, [DeviceSerialNumber |-> <<"1", "2", "A", "4", "5">>])),
      serialfrac |-> RegularFile(With(GoodElems,
                        [DeviceSerialNumber |-> <<"1", ThreeQuarters>>])),
      seriallong |-> RegularFile(With(GoodElems,
                        [DeviceSerialNumber |-> <<"1", "2", "3", "4", "5", "6", "7", "8", "9", "0">>])),
      shortdate |-> RegularFile(With(GoodElems, [StudyDate |-> <<"2", "0", "2", "3">>])),
      shorttime |-> RegularFile(With(GoodElems, [StudyTime |-> <<"1", "0">>])),
      nobirth |-> RegularFile(Without(GoodElems, {"PatientBirthDate"})),
      baduid |-> RegularFile(With(GoodElems, [StudyInstanceUID |-> <<"1", ".", "2", ".", "x">>])),
      nouid |-> RegularFile(Without(GoodElems, {"StudyInstanceUID"})),
      badinst |-> RegularFile(Without(GoodElems, {"InstanceNumber"})),
      series0 |-> RegularFile(With(GoodElems, [SeriesInstanceUID |-> <<"0">>])),
      series00 |-> RegularFile(With(GoodElems, [SeriesInstanceUID |-> <<"0", ".", "0">>])),
      series20 |-> RegularFile(With(GoodElems, [SeriesInstanceUID |-> <<"1", "2", "0", "0", ".", "8", "0", "0">>])),
      rooted |-> RegularFile(With(GoodElems, [Modality |-> <<"/", "x">>])) ]

SourcePaths == DOMAIN Disk

\* the destination roots a caller passes
DestRoots == { <<"/", "o", "u", "t">>, <<"o", "u", "t">> }

----------------------------------------------------------------------------
(* is_dicom_file and the pure steps of anonymize_file *)

\* the file opens and its ImageType is present and not empty
is_dicom_file(e) == e.open_ok /\ Element(e.elems, "ImageType") # <<>>

\* the third '/'-separated part of ImageType, or DEFAULT_IMG_TYPE
ImgType(img_type_tag) ==
    LET img_type_list == Split(img_type_tag, "/")
    IN  IF Len(img_type_list) > 2 THEN img_type_list[3] ELSE DEFAULT_IMG_TYPE

\* serial_num.chars().all(char::is_numeric)
SerialIsNumeric(serial_num) == AllNumeric(serial_num)

\* the value 1234567891234567. substituted when eval_number fails
SeriesFallback == <<1, 2, 3, 4, 5, 6, 7, 8, 9, 1, 2, 3, 4, 5, 6, 7>>

\* the month and day only, offsets 4..8
MonthDay(study_date) == Slice(study_date, 4, 8)

\* &values[1][2..8]: the part of the study date that enters the patient id
DatePart(study_date) == Slice(study_date, 2, 8)

\* &values[2][0..4]: the part of the study time that enters the patient id
TimePart(study_time) == Slice(study_time, 0, 4)

\* "Create new values" .. "Reformat study_uid": the derived identity, or the
\* panic of the first slice, parse or evaluation that fails
NewValues(file) ==
    LET serial_num == Element(file, "DeviceSerialNumber")
        study_date == Element(file, "StudyDate")
        study_time == Element(file, "StudyTime")
        birth_date == Element(file, "PatientBirthDate")
        date28 == DatePart(study_date)
        time04 == TimePart(study_time)
        year == Slice(study_date, 0, 4)
        birth == Slice(birth_date, 0, 4)
        pid == ParseI64(serial_num \o date28.val \o time04.val)
        uid == EvalSum(Replace(Element(file, "StudyInstanceUID"), ".", "+"))
        why == CASE ~date28.ok -> "study_date"
                 [] date28.ok /\ ~time04.ok -> "study_time"
                 [] date28.ok /\ time04.ok /\ ~birth.ok -> "birth_date"
                 [] date28.ok /\ time04.ok /\ birth.ok /\ ~pid.ok -> "patient_id"
                 [] date28.ok /\ time04.ok /\ birth.ok /\ pid.ok /\ ~uid.ok -> "study_uid"
                 [] OTHER -> "none"
    IN  [ ok |-> why = "none",
          why |-> why,
          new_pid |-> FormatUpperHex(pid.val),
          new_study_date |-> year.val \o <<"0", "1", "0", "1">>,
          new_birth_date |-> birth.val \o <<"0", "1", "0", "1">>,
          new_station |-> HostName,
          study_uid |-> FormatUpperHex(uid.val) ]

\* "Change DICOM tags according to new values", then "Clear specific DICOM tags"
Rewrite(file, v) ==
    RemoveElements(
        PutAll(file, ChangedTags(v.new_station, v.new_study_date, v.study_uid,
                                 v.new_pid, v.new_birth_date)),
        TagsToRemove)

\* series_uid / 10. == div_ceil(series_uid as i128, 10) as f64, for a float
\* holding a non-negative integer below 2^53: the last digit is 0 (zero included)
LoopCondition(series_uid) ==
    IF series_uid = <<>> THEN TRUE ELSE series_uid[Len(series_uid)] = 0

\* series_uid /= 10., under LoopCondition
DivideByTen(series_uid) ==
    IF series_uid = <<>> THEN <<>> ELSE SubSeq(series_uid, 1, Len(series_uid) - 1)

\* format!("{}_{}_{}.dcm", modality, img_type, inst_num)
FileName(modality, img_type, inst_num) ==
    modality \o <<"_">> \o img_type \o <<"_">> \o inst_num \o <<".", "d", "c", "m">>

\* new_path/new_pid/study_uid/series_uid
SeriesDir(new_path, new_pid, study_uid, series_hex) ==
    Join(Join(Join(new_path, new_pid), study_uid), series_hex)

\* the result of the write returned in place of true
WriteResult(write_ok) == write_ok

\* what anonymize_file returns after "Save anonymized file"
AfterWrite(write_ok) == TRUE

----------------------------------------------------------------------------
(* State *)

VARIABLES
    file_list,            \* anonymize_dir: the entries WalkDir collected, in order
    dir_path,             \* the destination root (new_path of anonymize_file)
    name_convention,      \* anonymize_file's flag
    pc,                   \* where control is
    idx,                  \* the entry the loop of anonymize_dir is at
    nb_anonymized_files,  \* the success counter of anonymize_dir
    cur,                  \* the locals of the anonymize_file call in progress
    dirs,                 \* directories create_dir_all has made
    out_files,            \* files write_to_file has written: path |-> elements
    log,                  \* one record per entry dealt with
    printed,              \* the count of "{} files anonymized.", or -1
    result,               \* what the entry point returned, or "none"
    path,                 \* extract_dicom_tags: the list of paths
    dicom_db              \* extract_dicom_tags: the records pushed so far

vars == << file_list, dir_path, name_convention, pc, idx, nb_anonymized_files,
           cur, dirs, out_files, log, printed, result, path, dicom_db >>

NoFile == [t \in {} |-> <<>>]

NoLocals ==
    [ file |-> NoFile, new_pid |-> <<>>, study_uid |-> <<>>, img_type |-> <<>>,
      modality |-> <<>>, inst_num |-> <<>>, series_uid |-> <<>>, made |-> {} ]

\* the record kept of one entry: how anonymize_file ended for it ("true",
\* "false", "panic", or "not_a_file" when it was not called), why, the
\* directories made, the output path and whether the file was written there
Outcome(src, kind, why, made, out, wrote, file, six) ==
    [ src |-> src, kind |-> kind, why |-> why, made |-> made, out |-> out,
      wrote |-> wrote, file |-> file, six |-> six ]

NoSix == << <<>>, <<>>, <<>>, <<>>, <<>>, <<>> >>

\* a write that does not replace a file already there
WriteIfAbsent(files, p, file) ==
    [q \in DOMAIN files \cup {p} |-> IF q \in DOMAIN files THEN files[q] ELSE file]

WriteFile(files, p, file) ==
    [q \in DOMAIN files \cup {p} |-> IF q = p THEN file ELSE files[q]]

\* anonymize_file from its first line to the series loop (naming convention)
\* or to its return (no naming convention), for the entry at src;
\* create_dir_all of the empty parent of a one-component path makes nothing
\* and cannot fail
EnterFile(src, new_path, convention, parent_ok, write_ok) ==
    LET e == Disk[src]
        file == e.elems
        img_type == ImgType(Element(file, "ImageType"))
        serial_num == Element(file, "DeviceSerialNumber")
        v == NewValues(file)
        file2 == Rewrite(file, v)
        parent == Parent(new_path)
        made == IF parent.some /\ parent.val # <<>> THEN {parent.val} ELSE {}
        inst_num == ParseU32(Element(file2, "InstanceNumber"))
    IN  IF ~is_dicom_file(e)
        THEN Outcome(src, "false", "not_dicom", {}, <<>>, FALSE, NoFile, NoSix)
        ELSE IF ~SerialIsNumeric(serial_num)
        THEN Outcome(src, "false", "serial", {}, <<>>, FALSE, NoFile, NoSix)
        ELSE IF ~v.ok
        THEN Outcome(src, "panic", v.why, {}, <<>>, FALSE, NoFile, NoSix)
        ELSE IF parent.some /\ parent.val # <<>> /\ ~parent_ok
        THEN Outcome(src, "panic", "parent_dir", {}, <<>>, FALSE, NoFile, NoSix)
        ELSE IF ~convention
        THEN Outcome(src, IF AfterWrite(write_ok) THEN "true" ELSE "false",
                     IF write_ok THEN "none" ELSE "write", made, new_path,
                     write_ok, file2,
                     << v.new_pid, v.study_uid, <<>>, <<>>, img_type, <<>> >>)
        ELSE IF ~inst_num.ok
        THEN Outcome(src, "panic", "instance_number", made, <<>>, FALSE, NoFile, NoSix)
        ELSE Outcome(src, "loop", "none", made, <<>>, FALSE, NoFile, NoSix)

\* the locals of anonymize_file when it reaches the series loop
Locals(src, new_path) ==
    LET file == Disk[src].elems
        v == NewValues(file)
        file2 == Rewrite(file, v)
        parent == Parent(new_path)
        series == EvalSum(Replace(Element(file2, "SeriesInstanceUID"), ".", "+"))
    IN  [ file |-> file2,
          new_pid |-> v.new_pid,
          study_uid |-> v.study_uid,
          img_type |-> ImgType(Element(file, "ImageType")),
          modality |-> Element(file2, "Modality"),
          inst_num |-> FormatPad5(ParseU32(Element(file2, "InstanceNumber")).val),
          series_uid |-> IF series.ok THEN series.val ELSE SeriesFallback,
          made |-> IF parent.some /\ parent.val # <<>> THEN {parent.val} ELSE {} ]

\* anonymize_file from the end of the series loop to its return
ExitFile(src, new_path, c, mkdir_ok, write_ok) ==
    LET series_hex == FormatUpperHex(c.series_uid)
        dir == SeriesDir(new_path, c.new_pid, c.study_uid, series_hex)
        file_path == Join(dir, FileName(c.modality, c.img_type, c.inst_num))
        six == << c.new_pid, c.study_uid, series_hex,
                  c.modality, c.img_type, c.inst_num >>
    IN  IF ~mkdir_ok
        THEN Outcome(src, "false", "series_dir", c.made, <<>>, FALSE, c.file, six)
        ELSE Outcome(src, IF AfterWrite(write_ok) THEN "true" ELSE "false",
                     IF write_ok THEN "none" ELSE "write", c.made \cup {dir},
                     file_path, write_ok, c.file, six)

\* the increment left out
NoIncrement(n) == n

\* nb_anonymized_files += 1
Increment(n) == n + 1

\* the effects of an anonymize_file call that has ended with outcome o
Effects(o) ==
    /\ log' = Append(log, o)
    /\ dirs' = dirs \cup o.made
    /\ out_files' = IF o.wrote THEN WriteFile(out_files, o.out, o.file) ELSE out_files
    /\ cur' = NoLocals

\* the loop of anonymize_dir goes on after a call that returned; a panic
\* unwinds out of anonymize_dir
Continue(o) ==
    /\ Effects(o)
    /\ pc' = IF o.kind = "panic" THEN "panicked" ELSE "walk"
    /\ idx' = IF o.kind = "panic" THEN idx ELSE idx + 1
    /\ nb_anonymized_files' =
           IF o.kind = "true" THEN Increment(nb_anonymized_files)
           ELSE nb_anonymized_files
    /\ UNCHANGED << file_list, dir_path, name_convention, printed, result,
                    path, dicom_db >>

----------------------------------------------------------------------------
(* anonymize_dir *)

\* the listings WalkDir can collect: distinct paths of the tree, in any order
Listings ==
    { l \in UNION { [1..n -> SourcePaths] : n \in 0..MaxEntries } :
        \A i, j \in 1..Len(l) : i # j => l[i] # l[j] }

Init ==
    /\ file_list \in Listings
    /\ dir_path \in DestRoots
    /\ name_convention = TRUE
    /\ pc = "walk"
    /\ idx = 1
    /\ nb_anonymized_files = 0
    /\ cur = NoLocals
    /\ dirs = {}
    /\ out_files = NoFile
    /\ log = <<>>
    /\ printed = -1
    /\ result = "none"
    /\ path = <<>>
    /\ dicom_db = <<>>

\* an entry that is not a regular file is logged and passed over
NotAFile ==
    /\ pc = "walk"
    /\ idx <= Len(file_list)
    /\ ~Disk[file_list[idx]].is_file
    /\ log' = Append(log, Outcome(file_list[idx], "not_a_file", "none", {},
                                  <<>>, FALSE, NoFile, NoSix))
    /\ idx' = idx + 1
    /\ UNCHANGED << file_list, dir_path, name_convention, pc,
                    nb_anonymized_files, cur, dirs, out_files, printed,
                    result, path, dicom_db >>

\* anonymize_file(file_path, dir_path, true) up to the series loop, or to
\* its return or panic when it ends before
AnonymizeFile ==
    /\ pc = "walk"
    /\ idx <= Len(file_list)
    /\ Disk[file_list[idx]].is_file
    /\ \E parent_ok \in BOOLEAN :
         LET o == EnterFile(file_list[idx], dir_path, name_convention,
                            parent_ok, TRUE)
         IN  IF o.kind = "loop"
             THEN /\ pc' = "series_loop"
                  /\ cur' = Locals(file_list[idx], dir_path)
                  /\ UNCHANGED << file_list, dir_path, name_convention, idx,
                                  nb_anonymized_files, dirs, out_files, log,
                                  printed, result, path, dicom_db >>
             ELSE Continue(o)

\* one iteration of: while series_uid / 10. == div_ceil(..) { series_uid /= 10. }
SeriesLoop ==
    /\ pc = "series_loop"
    /\ LoopCondition(cur.series_uid)
    /\ cur' = [cur EXCEPT !.series_uid = DivideByTen(cur.series_uid)]
    /\ UNCHANGED << file_list, dir_path, name_convention, pc, idx,
                    nb_anonymized_files, dirs, out_files, log, printed,
                    result, path, dicom_db >>

\* the loop ends: directories, file name, write, return, and the counter
FinishFile ==
    /\ pc = "series_loop"
    /\ ~LoopCondition(cur.series_uid)
    /\ \E mkdir_ok, write_ok \in BOOLEAN :
         Continue(ExitFile(file_list[idx], dir_path, cur, mkdir_ok, write_ok))

\* the listing is exhausted: print the count and return Ok(true)
Report ==
    /\ pc = "walk"
    /\ idx > Len(file_list)
    /\ printed' = nb_anonymized_files
    /\ result' = "true"
    /\ pc' = "done"
    /\ UNCHANGED << file_list, dir_path, name_convention, idx,
                    nb_anonymized_files, cur, dirs, out_files, log, path,
                    dicom_db >>

Next == NotAFile \/ AnonymizeFile \/ SeriesLoop \/ FinishFile \/ Report

Spec == Init /\ [][Next]_vars

----------------------------------------------------------------------------
(* anonymize_file called on its own, with either value of name_convention *)

InitFile ==
    /\ file_list \in { <<src>> : src \in SourcePaths }
    /\ dir_path \in DestRoots
    /\ name_convention \in BOOLEAN
    /\ pc = "call"
    /\ idx = 1
    /\ nb_anonymized_files = 0
    /\ cur = NoLocals
    /\ dirs = {}
    /\ out_files = NoFile
    /\ log = <<>>
    /\ printed = -1
    /\ result = "none"
    /\ path = <<>>
    /\ dicom_db = <<>>

\* the call has ended with outcome o
Return(o) ==
    /\ Effects(o)
    /\ pc' = IF o.kind = "panic" THEN "panicked" ELSE "returned"
    /\ result' = o.kind
    /\ UNCHANGED << file_list, dir_path, name_convention, idx,
                    nb_anonymized_files, printed, path, dicom_db >>

CallFile ==
    /\ pc = "call"
    /\ \E parent_ok, write_ok \in BOOLEAN :
         LET o == EnterFile(file_list[idx], dir_path, name_convention,
                            parent_ok, write_ok)
         IN  IF o.kind = "loop"
             THEN /\ pc' = "series_loop"
                  /\ cur' = Locals(file_list[idx], dir_path)
                  /\ UNCHANGED << file_list, dir_path, name_convention, idx,
                                  nb_anonymized_files, dirs, out_files, log,
                                  printed, result, path, dicom_db >>
             ELSE Return(o)

ReturnFile ==
    /\ pc = "series_loop"
    /\ ~LoopCondition(cur.series_uid)
    /\ \E mkdir_ok, write_ok \in BOOLEAN :
         Return(ExitFile(file_list[idx], dir_path, cur, mkdir_ok, write_ok))

NextFile == CallFile \/ SeriesLoop \/ ReturnFile

SpecFile == InitFile /\ [][NextFile]_vars

----------------------------------------------------------------------------
(* extract_dicom_tags *)

\* dict.set_item(key, value)
SetItem(dict, key, value) ==
    [k \in DOMAIN dict \cup {key} |-> IF k = key THEN value ELSE dict[k]]

\* a key for every tag, with an empty value for a tag the dataset lacks
RECURSIVE SetAllTags(_, _, _)
SetAllTags(dict, dataset, tags) ==
    IF tags = <<>> THEN dict
    ELSE SetAllTags(SetItem(dict, TagString(Head(tags)),
                            Element(dataset, Head(tags))),
                    dataset, Tail(tags))

\* "Loop over tags": a key for each tag the dataset holds
RECURSIVE SetTags(_, _, _)
SetTags(dict, dataset, tags) ==
    IF tags = <<>> THEN dict
    ELSE IF Head(tags) \in DOMAIN dataset
    THEN SetTags(SetItem(dict, TagString(Head(tags)), dataset[Head(tags)]),
                 dataset, Tail(tags))
    ELSE SetTags(dict, dataset, Tail(tags))

\* the record of one file: "file" and the tags
Record(src) == SetTags([file |-> src], Disk[src].elems, TagsToExtract)

InitExtract ==
    /\ path \in UNION { [1..n -> SourcePaths] : n \in 0..MaxPaths }
    /\ pc = "extract"
    /\ idx = 1
    /\ file_list = <<>>
    /\ dir_path = <<>>
    /\ name_convention = TRUE
    /\ nb_anonymized_files = 0
    /\ cur = NoLocals
    /\ dirs = {}
    /\ out_files = NoFile
    /\ log = <<>>
    /\ printed = -1
    /\ result = "none"
    /\ dicom_db = <<>>

\* filter(|file| is_dicom_file(file)) drops the path
ExtractSkip ==
    /\ pc = "extract"
    /\ idx <= Len(path)
    /\ ~is_dicom_file(Disk[path[idx]])
    /\ idx' = idx + 1
    /\ UNCHANGED << file_list, dir_path, name_convention, pc,
                    nb_anonymized_files, cur, dirs, out_files, log, printed,
                    result, path, dicom_db >>

\* the body of the loop: one record pushed
ExtractFile ==
    /\ pc = "extract"
    /\ idx <= Len(path)
    /\ is_dicom_file(Disk[path[idx]])
    /\ dicom_db' = Append(dicom_db, Record(path[idx]))
    /\ idx' = idx + 1
    /\ UNCHANGED << file_list, dir_path, name_convention, pc,
                    nb_anonymized_files, cur, dirs, out_files, log, printed,
                    result, path >>

ExtractReturn ==
    /\ pc = "extract"
    /\ idx > Len(path)
    /\ pc' = "extracted"
    /\ result' = "dicom_db"
    /\ UNCHANGED << file_list, dir_path, name_convention, idx,
                    nb_anonymized_files, cur, dirs, out_files, log, printed,
                    path, dicom_db >>

NextExtract == ExtractSkip \/ ExtractFile \/ ExtractReturn

SpecExtract == InitExtract /\ [][NextExtract]_vars

----------------------------------------------------------------------------
(* Vocabulary of the properties *)

Processed == 1..Len(log)

SourceOf(i) == Disk[log[i].src]

\* the entry is a regular file that passes the DICOM gate
PassesGate(src) == Disk[src].is_file /\ is_dicom_file(Disk[src])

\* the serial number holds a character that is not one of the digits 0..9
HasNonDigitSerial(src) ==
    ~AllDigits(Element(Disk[src].elems, "DeviceSerialNumber"))

\* the identity transformation fails for the file: serial number, slices,
\* patient-id concatenation or study UID
IdentityRejects(src) ==
    \/ ~SerialIsNumeric(Element(Disk[src].elems, "DeviceSerialNumber"))
    \/ ~NewValues(Disk[src].elems).ok

Count(S) == Cardinality(S)

GateFiles == { i \in 1..Len(file_list) : PassesGate(file_list[i]) }

----------------------------------------------------------------------------
(* Properties *)

\* C1: in anonymize_dir, a regular file whose per-file processing fails
\* (short study date, study time or birth date, a patient-id concatenation
\* that is no integer, a study UID that does not evaluate, an instance number
\* that is no unsigned integer, a directory that cannot be created) becomes
\* "not anonymized": anonymize_file returns false for it, the batch is not
\* aborted, and anonymize_dir ends by returning true.
C1_FailureIsSkipped ==
    /\ pc # "panicked"
    /\ \A i \in Processed :
         log[i].why \in { "study_date", "study_time", "birth_date", "patient_id",
                          "study_uid", "instance_number", "parent_dir",
                          "series_dir" }
           => log[i].kind = "false"

\* C2 (as claimed): the count anonymize_dir reports equals the number of
\* gate-passing regular files minus those the identity transformation rejects.
C2_CountAsClaimed ==
    pc = "done" =>
        printed = Count(GateFiles)
                  - Count({ i \in GateFiles : IdentityRejects(file_list[i]) })

\* C2 (amended): the count anonymize_dir reports equals the number of
\* gate-passing regular files minus those the identity transformation rejects
\* and minus those whose series directory could not be created; the counter
\* is at every moment the number of entries anonymize_file returned true for,
\* each of them a gate-passing regular file counted once.
C2_CountAccuracy ==
    /\ nb_anonymized_files = Count({ i \in Processed : log[i].kind = "true" })
    /\ \A i \in Processed : log[i].kind = "true" => PassesGate(log[i].src)
    /\ \A i, j \in Processed : log[i].src = log[j].src => i = j
    /\ pc = "done" =>
         printed = Count(GateFiles)
                   - Count({ i \in GateFiles : IdentityRejects(file_list[i]) })
                   - Count({ i \in Processed : log[i].why = "series_dir" })

C2_Witness ==
    /\ pc = "done"
    /\ printed = 1
    /\ Count(GateFiles) = 2
    /\ \E i \in Processed : log[i].why = "series_dir"

\* C3: for a file whose DeviceSerialNumber holds a non-digit character,
\* anonymize_file returns false, makes no directory and writes no file.
C3_NonDigitSerialRejected ==
    \A i \in Processed :
        PassesGate(log[i].src) /\ HasNonDigitSerial(log[i].src)
          => /\ log[i].kind = "false"
             /\ log[i].made = {}
             /\ ~log[i].wrote

\* C4: a file anonymize_file has anonymized holds none of the tags of the
\* deletion list and every tag of the overwrite table, in memory when it is
\* serialized and in every file written; no overwritten tag is a deleted one.
C4_OverwriteTable ==
    { "StationName", "InstanceCreationDate", "StudyDate", "SeriesDate",
      "AcquisitionDate", "ContentDate", "AccessionNumber", "PatientName",
      "PatientID", "PatientBirthDate", "StudyID" }

C4_TagsDeletedAndOverwritten ==
    /\ \A i \in Processed :
         log[i].kind = "true"
           => /\ DOMAIN log[i].file \cap TagsToRemove = {}
              /\ C4_OverwriteTable \subseteq DOMAIN log[i].file
    /\ \A p \in DOMAIN out_files :
         /\ DOMAIN out_files[p] \cap TagsToRemove = {}
         /\ C4_OverwriteTable \subseteq DOMAIN out_files[p]

C4_Witness ==
    \E i \in Processed :
        /\ log[i].kind = "true"
        /\ log[i].wrote
        /\ DOMAIN SourceOf(i).elems \cap TagsToRemove # {}
        /\ ~(C4_OverwriteTable \subseteq DOMAIN SourceOf(i).elems)
        /\ log[i].out \in DOMAIN out_files

\* the seed of the example: serial "12345", study date "20230615",
\* study time "101530"
C5_ExampleSeed(src) ==
    /\ PassesGate(src)
    /\ Element(Disk[src].elems, "DeviceSerialNumber") = <<"1", "2", "3", "4", "5">>
    /\ Element(Disk[src].elems, "StudyDate") = <<"2", "0", "2", "3", "0", "6", "1", "5">>
    /\ Element(Disk[src].elems, "StudyTime") = <<"1", "0", "1", "5", "3", "0">>

\* C5 (as claimed): for the example seed the new patient identifier is the
\* uppercase hexadecimal form of 1234506151015, that is 11F6E4CF467.
C5_PidAsClaimed ==
    /\ pc = "series_loop" /\ C5_ExampleSeed(file_list[idx])
         => cur.new_pid = <<"1", "1", "F", "6", "E", "4", "C", "F", "4", "6", "7">>
    /\ \A i \in Processed :
         C5_ExampleSeed(log[i].src) /\ log[i].six # NoSix
           => log[i].six[1] = <<"1", "1", "F", "6", "E", "4", "C", "F", "4", "6", "7">>

\* C5 (amended): for the example seed the new patient identifier is the
\* uppercase hexadecimal form, without prefix, of 123452306151015, the
\* concatenation of "12345", "230615" (offsets 2..8 of the study date) and
\* "1015": 70477ADAD667.
C5_ExamplePid ==
    /\ pc = "series_loop" /\ C5_ExampleSeed(file_list[idx])
         => cur.new_pid = <<"7", "0", "4", "7", "7", "A", "D", "A", "D", "6", "6", "7">>
    /\ \A i \in Processed :
         C5_ExampleSeed(log[i].src) /\ log[i].six # NoSix
           => log[i].six[1] = <<"7", "0", "4", "7", "7", "A", "D", "A", "D", "6", "6", "7">>

C5_Witness ==
    \E i \in Processed :
        /\ C5_ExampleSeed(log[i].src)
        /\ log[i].kind = "true"
        /\ log[i].six # NoSix

\* the paths dealt with so far that pass the gate, in the order of the list
C6_Kept == SelectSeq(SubSeq(path, 1, idx - 1), LAMBDA src : is_dicom_file(Disk[src]))

C6_TagStrings == { TagString(TagsToExtract[n]) : n \in 1..Len(TagsToExtract) }

\* C6: extract_dicom_tags returns one record per path that passes the gate
\* and none for a path that fails it, in the order of the input; every
\* record has the key "file" holding its source path, and a key of one of
\* the 15 projected tags only if the source file holds that tag.
C6_ExtractionRecords ==
    /\ Len(dicom_db) = Len(C6_Kept)
    /\ \A n \in 1..Len(dicom_db) :
         /\ "file" \in DOMAIN dicom_db[n]
         /\ dicom_db[n]["file"] = C6_Kept[n]
         /\ DOMAIN dicom_db[n] \subseteq {"file"} \cup C6_TagStrings
         /\ \A t \in 1..Len(TagsToExtract) :
              TagString(TagsToExtract[t]) \in DOMAIN dicom_db[n]
                => TagsToExtract[t] \in DOMAIN Disk[C6_Kept[n]].elems

C6_Witness ==
    /\ pc = "extracted"
    /\ Len(path) = 2
    /\ Len(dicom_db) = 1
    /\ ~is_dicom_file(Disk[path[1]])
    /\ "(0008,0060)" \notin DOMAIN dicom_db[1]
    /\ "(0008,0020)" \in DOMAIN dicom_db[1]

\* the file name the claim gives: modality_imageTypeCategory_instanceNumber.dcm
C7_Name(src) ==
    LET elems == Disk[src].elems
        parts == Split(Element(elems, "ImageType"), "/")
    IN  Element(elems, "Modality") \o <<"_">>
          \o (IF Len(parts) <= 2 THEN <<"U", "N", "K">> ELSE parts[3]) \o <<"_">>
          \o PadZeros(FormatDec(ToDec(Element(elems, "InstanceNumber"))), 5)
          \o <<".", "d", "c", "m">>

\* C7: the path anonymize_file writes to is the base path itself without the
\* naming convention, and with it
\* basePath/newPatientId/newStudyId/newSeriesId/modality_category_instance.dcm;
\* when that directory cannot be created the call returns false and writes
\* nothing.
C7_OutputPath ==
    \A i \in Processed :
        /\ log[i].kind = "true" /\ ~name_convention => log[i].out = dir_path
        /\ log[i].kind = "true" /\ name_convention
             => log[i].out = dir_path \o <<"/">> \o log[i].six[1] \o <<"/">>
                               \o log[i].six[2] \o <<"/">> \o log[i].six[3]
                               \o <<"/">> \o C7_Name(log[i].src)
        /\ log[i].why = "series_dir" => log[i].kind = "false" /\ ~log[i].wrote

\* C8: the series loop terminates for every series instance UID, the value 0
\* included: while the loop condition holds, an iteration leaves a value with
\* one decimal digit fewer, so the condition is false after finitely many.
C8_SeriesLoopTerminates ==
    pc = "series_loop" /\ LoopCondition(cur.series_uid)
      => Len(DivideByTen(cur.series_uid)) < Len(cur.series_uid)

\* C9: when the final write fails, anonymize_file still returns true and
\* anonymize_dir counts the file, so the count can exceed the files written.
C9_WriteFailureCounted ==
    /\ \A i \in Processed :
         log[i].why = "write" => log[i].kind = "true" /\ ~log[i].wrote
    /\ nb_anonymized_files >= Count({ i \in Processed : log[i].why = "write" })
                              + Count(DOMAIN out_files)

C9_Witness ==
    /\ pc = "done"
    /\ \E i \in Processed : log[i].why = "write"
    /\ printed > Count(DOMAIN out_files)
    /\ printed = 2

\* C10: the output path is a function of the destination root and of (new
\* patient id, new study id, new series id, modality, image-type category,
\* instance number): two files of a batch that agree on the six are written
\* to one path, the later overwriting the earlier, both counted; the files
\* written never outnumber the count.
C10_SamePathCollision ==
    /\ \A i, j \in Processed :
         log[i].kind = "true" /\ log[j].kind = "true" /\ log[i].six = log[j].six
           => log[i].out = log[j].out
    /\ \A i \in Processed :
         log[i].wrote /\ (\A j \in Processed : j > i /\ log[j].wrote
                                                  => log[j].out # log[i].out)
           => /\ log[i].out \in DOMAIN out_files
              /\ out_files[log[i].out] = log[i].file
    /\ Count(DOMAIN out_files) <= nb_anonymized_files

C10_Witness ==
    /\ pc = "done"
    /\ printed = 2
    /\ log[1].wrote /\ log[2].wrote
    /\ log[1].file # log[2].file
    /\ Count(DOMAIN out_files) = 1
    /\ out_files[log[2].out] = log[2].file

====
